---- MODULE Spec2Model ----
(***************************************************************************)
(* QuicKey tab recency tracker and jump list                               *)
(* (src/unnamed/part_001: classes TabRecency and TabJumpList).             *)
(*                                                                         *)
(* The TabRecency singleton is the record `tr`; its methods are operators  *)
(* from an object value to the object value they leave behind, and each    *)
(* chrome listener / command is one action.  Array indices are 0-based as  *)
(* in the source; a TLA+ sequence is read at index + 1.                    *)
(***************************************************************************)
EXTENDS Integers, Sequences, FiniteSets, TLC

VARIABLES
    tr,          \* the TabRecency instance (part_001 line 197)
    now,         \* the wall clock read by `new Date()`, in milliseconds
    selected,    \* arguments of the selectSpecificTab calls of the last handler
    lastCall,    \* history: the last call made on tr, its arguments and result
    closed,      \* history: tabs deregistered and not registered since
    creditOrder, \* history: tabs holding a timestamp, in the order last written
    step,        \* position in the round-trip scenario (0 outside of it)
    script,      \* the tabs <<T1, T2, T3>> of the scenario (<<>> outside of it)
    inflight     \* tabs handed to chrome.tabs.update whose onActivated event
                 \* has not arrived yet (followed in AsyncSpec only)

vars == <<tr, now, selected, lastCall, closed, creditOrder, step, script,
          inflight>>

-----------------------------------------------------------------------------
(* Bounds *)

MaxTabs == 3

MaxTicks == 4

MaxRecencyTicks == 6

MaxJumps == 3

TabIds == 1..MaxTabs

-----------------------------------------------------------------------------
(* Constants and absent values *)

TIME_DELTA == 250

\* JavaScript null in the integer-valued fields lastVisited / lastVisitedTime.
null == -2

\* this.jumpList = null: no TabJumpList object.
NoJumpList == [tabs |-> <<>>, activeIdx |-> null, deletedTabs |-> {}]

\* The clock advances in half debounce intervals, so that dwell times below,
\* equal to and above TIME_DELTA all occur.
TickMs == TIME_DELTA \div 2

-----------------------------------------------------------------------------
(* Number <-> property key conversions *)

\* String(n) for a non-negative integer: its decimal digits.
RECURSIVE String(_)
String(n) == IF n < 10 THEN <<n>> ELSE Append(String(n \div 10), n % 10)

\* parseInt(s) for a string of decimal digits.
RECURSIVE parseInt(_)
parseInt(s) ==
    IF Len(s) = 1 THEN s[1]
    ELSE 10 * parseInt(SubSeq(s, 1, Len(s) - 1)) + s[Len(s)]

\* Object.keys(cache): integer-like keys come out in ascending numeric order.
RECURSIVE ObjectKeys(_)
ObjectKeys(cache) ==
    IF DOMAIN cache = {} THEN <<>>
    ELSE LET k == CHOOSE x \in DOMAIN cache : \A y \in DOMAIN cache : x <= y
             rest == [t \in DOMAIN cache \ {k} |-> cache[t]]
         IN  <<String(k)>> \o ObjectKeys(rest)

\* cache[key] = value
put(cache, key, value) ==
    [t \in DOMAIN cache \cup {key} |-> IF t = key THEN value ELSE cache[t]]

\* delete cache[key]
delete(cache, key) == [t \in DOMAIN cache \ {key} |-> cache[t]]

-----------------------------------------------------------------------------
(* class TabJumpList *)

\* constructor(tabs)
TabJumpList(tabs) ==
    [tabs |-> tabs, activeIdx |-> Len(tabs) - 1, deletedTabs |-> {}]

\* this.tabs[i]: defined only for an index inside the array.
hasIndex(jl, i) == 0 <= i /\ i < Len(jl.tabs)

\* isCoherent that accepts any tab.
isCoherent_any(jl, currentTabId) == TRUE

isCoherent(jl, currentTabId) ==
    hasIndex(jl, jl.activeIdx) /\ jl.tabs[jl.activeIdx + 1] = currentTabId

\* TabJumpList.deregister: [jumpList |-> the object afterwards, ret |-> result]
TabJumpList_deregister(jl, tabId) ==
    IF hasIndex(jl, jl.activeIdx) /\ jl.tabs[jl.activeIdx + 1] = tabId
    THEN [jumpList |-> jl, ret |-> TRUE]
    ELSE [jumpList |-> [jl EXCEPT !.deletedTabs = @ \cup {tabId}], ret |-> FALSE]

\* The back loop without the deletedTabs test.
backCandidate_noSkip(jl, i) == IF i < 0 THEN -1 ELSE i

\* The loop of getJumpBackTabId with need = 1: candidateIdx, or -1.
RECURSIVE backCandidate(_, _)
backCandidate(jl, i) ==
    IF i < 0 THEN -1
    ELSE IF jl.tabs[i + 1] \in jl.deletedTabs THEN backCandidate(jl, i - 1)
    ELSE i

\* getJumpBackTabId with the assignment to activeIdx ahead of the -1 test.
getJumpBackTabId_moveFirst(jl) ==
    LET candidateIdx == backCandidate(jl, jl.activeIdx - 1)
    IN  [jumpList |-> [jl EXCEPT !.activeIdx = candidateIdx],
         ret |-> IF candidateIdx = -1 THEN -1 ELSE jl.tabs[candidateIdx + 1]]

getJumpBackTabId(jl) ==
    LET candidateIdx == backCandidate(jl, jl.activeIdx - 1)
    IN  IF candidateIdx = -1
        THEN [jumpList |-> jl, ret |-> -1]
        ELSE [jumpList |-> [jl EXCEPT !.activeIdx = candidateIdx],
              ret |-> jl.tabs[candidateIdx + 1]]

\* The loop of getJumpForwardTabId with need = 1: candidateIdx, or -1.
RECURSIVE forwardCandidate(_, _)
forwardCandidate(jl, i) ==
    IF ~(i < Len(jl.tabs)) THEN -1
    ELSE IF jl.tabs[i + 1] \in jl.deletedTabs THEN forwardCandidate(jl, i + 1)
    ELSE i

\* getJumpForwardTabId without the assignment to activeIdx.
getJumpForwardTabId_stay(jl) ==
    LET candidateIdx == forwardCandidate(jl, jl.activeIdx + 1)
    IN  IF candidateIdx = -1
        THEN [jumpList |-> jl, ret |-> -1]
        ELSE [jumpList |-> jl, ret |-> jl.tabs[candidateIdx + 1]]

getJumpForwardTabId(jl) ==
    LET candidateIdx == forwardCandidate(jl, jl.activeIdx + 1)
    IN  IF candidateIdx = -1
        THEN [jumpList |-> jl, ret |-> -1]
        ELSE [jumpList |-> [jl EXCEPT !.activeIdx = candidateIdx],
              ret |-> jl.tabs[candidateIdx + 1]]

-----------------------------------------------------------------------------
(* class TabRecency *)

\* constructor()
TabRecency ==
    [timestamp |-> 1, current |-> -1, cache |-> <<>>,
     lastVisited |-> null, lastVisitedTime |-> null, jumpList |-> NoJumpList]

\* The comparator with its operands swapped: oldest first.
compare_ascending(this, a, b) ==
    this.cache[parseInt(a)] - this.cache[parseInt(b)]

\* The comparator of getTabsByRecency: (a,b) => this.cache[b] - this.cache[a]
compare(this, a, b) == this.cache[parseInt(b)] - this.cache[parseInt(a)]

\* Array.prototype.sort as a stable insertion sort under `compare`.
RECURSIVE insert(_, _, _)
insert(this, sorted, x) ==
    IF sorted = <<>> THEN <<x>>
    ELSE IF compare(this, Head(sorted), x) > 0
         THEN <<x>> \o sorted
         ELSE <<Head(sorted)>> \o insert(this, Tail(sorted), x)

RECURSIVE sort(_, _)
sort(this, arr) ==
    IF arr = <<>> THEN <<>>
    ELSE insert(this, sort(this, SubSeq(arr, 1, Len(arr) - 1)), arr[Len(arr)])

\* getTabsByRecency without the sort.
getTabsByRecency_unsorted(this) ==
    LET tabIds == ObjectKeys(this.cache)
    IN  [i \in 1..Len(tabIds) |-> parseInt(tabIds[i])]

getTabsByRecency(this) ==
    LET tabIds == sort(this, ObjectKeys(this.cache))
    IN  [i \in 1..Len(tabIds) |-> parseInt(tabIds[i])]

reverse(arr) == [i \in 1..Len(arr) |-> arr[Len(arr) + 1 - i]]

\* Line 86 without the dwell-time test.
visitedLongEnough_any(this, currentTime) == this.lastVisitedTime # null

\* Line 86 with < for <=.
visitedLongEnough_strict(this, currentTime) ==
    this.lastVisitedTime # null
    /\ TIME_DELTA < currentTime - this.lastVisitedTime

\* Line 86: the pending tab has been visited for at least TIME_DELTA ms.
visitedLongEnough(this, currentTime) ==
    this.lastVisitedTime # null
    /\ TIME_DELTA <= currentTime - this.lastVisitedTime

\* register with line 87 writing the entry of the arriving tab instead of
\* the entry of lastVisited.
register_creditsArriving(this, tabId, currentTime) ==
    LET credit == visitedLongEnough(this, currentTime)
        timestamp == IF credit THEN this.timestamp + 1 ELSE this.timestamp
        cache == IF credit THEN put(this.cache, tabId, timestamp)
                 ELSE this.cache
        jumpList == IF this.jumpList # NoJumpList
                       /\ ~isCoherent(this.jumpList, tabId)
                    THEN NoJumpList ELSE this.jumpList
    IN  [timestamp |-> timestamp, current |-> tabId, cache |-> cache,
         lastVisited |-> tabId, lastVisitedTime |-> currentTime,
         jumpList |-> jumpList]

\* register with line 87 storing this.timestamp without the increment.
register_noIncrement(this, tabId, currentTime) ==
    LET credit == visitedLongEnough(this, currentTime)
        timestamp == this.timestamp
        cache == IF credit THEN put(this.cache, this.lastVisited, timestamp)
                 ELSE this.cache
        jumpList == IF this.jumpList # NoJumpList
                       /\ ~isCoherent(this.jumpList, tabId)
                    THEN NoJumpList ELSE this.jumpList
    IN  [timestamp |-> timestamp, current |-> tabId, cache |-> cache,
         lastVisited |-> tabId, lastVisitedTime |-> currentTime,
         jumpList |-> jumpList]

register(this, tabId, currentTime) ==
    LET credit == visitedLongEnough(this, currentTime)
        timestamp == IF credit THEN this.timestamp + 1 ELSE this.timestamp
        cache == IF credit THEN put(this.cache, this.lastVisited, timestamp)
                 ELSE this.cache
        jumpList == IF this.jumpList # NoJumpList
                       /\ ~isCoherent(this.jumpList, tabId)
                    THEN NoJumpList ELSE this.jumpList
    IN  [timestamp |-> timestamp, current |-> tabId, cache |-> cache,
         lastVisited |-> tabId, lastVisitedTime |-> currentTime,
         jumpList |-> jumpList]

\* deregister without the `tabId === this.lastVisited` test of line 99: the
\* pending tab is forgotten whichever tab goes away.
deregister_anyPending(this, tabId) ==
    LET r == TabJumpList_deregister(this.jumpList, tabId)
        jumpList == IF this.jumpList = NoJumpList THEN NoJumpList
                    ELSE IF r.ret THEN NoJumpList ELSE r.jumpList
    IN  [this EXCEPT
            !.lastVisited = null,
            !.lastVisitedTime = null,
            !.cache = delete(@, tabId),
            !.jumpList = jumpList]

\* deregister without lines 99-102: the pending tab stays pending when it is
\* the one going away.
deregister_keepsPending(this, tabId) ==
    LET r == TabJumpList_deregister(this.jumpList, tabId)
        jumpList == IF this.jumpList = NoJumpList THEN NoJumpList
                    ELSE IF r.ret THEN NoJumpList ELSE r.jumpList
    IN  [this EXCEPT
            !.cache = delete(@, tabId),
            !.jumpList = jumpList]

deregister(this, tabId) ==
    LET pendingGone == tabId = this.lastVisited
        r == TabJumpList_deregister(this.jumpList, tabId)
        jumpList == IF this.jumpList = NoJumpList THEN NoJumpList
                    ELSE IF r.ret THEN NoJumpList ELSE r.jumpList
    IN  [this EXCEPT
            !.lastVisited = IF pendingGone THEN null ELSE @,
            !.lastVisitedTime = IF pendingGone THEN null ELSE @,
            !.cache = delete(@, tabId),
            !.jumpList = jumpList]

\* Lines 59-63: the snapshot a new jump list is built from.
jumpListTabs(this) ==
    LET tabs == reverse(getTabsByRecency(this))
    IN  IF Len(tabs) > 0 /\ tabs[Len(tabs)] # this.current
        THEN Append(tabs, this.current) ELSE tabs

\* jumpBackTab with line 66 read as an assignment: this.current takes the
\* target of the jump.
jumpBackTab_setsCurrent(this) ==
    LET jumpList == IF this.jumpList = NoJumpList
                    THEN TabJumpList(jumpListTabs(this)) ELSE this.jumpList
        r == getJumpBackTabId(jumpList)
    IN  [this |-> [this EXCEPT !.jumpList = r.jumpList,
                               !.current = IF r.ret = -1 THEN @ ELSE r.ret],
         backTabId |-> r.ret]

\* jumpBackTab up to the selectSpecificTab call:
\* [this |-> the object afterwards, backTabId |-> the local variable]
jumpBackTab(this) ==
    LET jumpList == IF this.jumpList = NoJumpList
                    THEN TabJumpList(jumpListTabs(this)) ELSE this.jumpList
        r == getJumpBackTabId(jumpList)
    IN  [this |-> [this EXCEPT !.jumpList = r.jumpList], backTabId |-> r.ret]

\* jumpForwardTab creating a jump list the way jumpBackTab does.
jumpForwardTab_lazy(this) ==
    LET jumpList == IF this.jumpList = NoJumpList
                    THEN TabJumpList(jumpListTabs(this)) ELSE this.jumpList
        r == getJumpForwardTabId(jumpList)
    IN  [this |-> [this EXCEPT !.jumpList = r.jumpList], forwardTabId |-> r.ret]

\* jumpForwardTab up to the selectSpecificTab call.
jumpForwardTab(this) ==
    IF this.jumpList # NoJumpList
    THEN LET r == getJumpForwardTabId(this.jumpList)
         IN  [this |-> [this EXCEPT !.jumpList = r.jumpList],
              forwardTabId |-> r.ret]
    ELSE [this |-> this, forwardTabId |-> -1]

\* selectSpecificTab(tabId): the request handed to chrome.tabs.get / update.
selectSpecificTab(tabId) == <<tabId>>

-----------------------------------------------------------------------------
(* History variables *)

remove(seq, x) == SelectSeq(seq, LAMBDA e : e # x)

\* The tab whose cache entry a register call wrote, given the object at its
\* entry and at its return; null if it wrote none.
credited(before, after) ==
    LET written == {t \in DOMAIN after.cache :
                       t \notin DOMAIN before.cache
                       \/ after.cache[t] # before.cache[t]}
    IN  IF written = {} THEN null ELSE CHOOSE t \in written : TRUE

\* creditOrder after a register call.
creditedAfter(order, before, after) ==
    IF credited(before, after) = null THEN order
    ELSE Append(remove(order, credited(before, after)), credited(before, after))

\* The timestamp the tab credited by a register call held at its entry; null
\* if no tab was credited or if it held none.
previous(before, after) ==
    IF credited(before, after) \in DOMAIN before.cache
    THEN before.cache[credited(before, after)] ELSE null

\* The record of a register(tabId) call that took the object from `before`
\* to `after`: the tab that was pending at entry, the tab it credited and
\* that tab's previous timestamp.
RegisterCall(tabId, before, after) ==
    [op |-> "register", tabId |-> tabId,
     pending |-> before.lastVisited, credited |-> credited(before, after),
     previous |-> previous(before, after)]

-----------------------------------------------------------------------------
(* Handlers *)

Init ==
    /\ tr = TabRecency
    /\ now = 0
    /\ selected = <<>>
    /\ lastCall = [op |-> "constructor"]
    /\ closed = {}
    /\ creditOrder = <<>>
    /\ step = 0
    /\ script = <<>>
    /\ inflight = <<>>

\* chrome.tabs.onActivated listener
onActivated(tabId) ==
    /\ tr' = register(tr, tabId, now)
    /\ selected' = <<>>
    /\ lastCall' = RegisterCall(tabId, tr, tr')
    /\ closed' = closed \ {tabId}
    /\ creditOrder' = creditedAfter(creditOrder, tr, tr')
    /\ UNCHANGED now

\* chrome.windows.onFocusChanged listener, for a window with an active tab
onFocusChanged(tabId) ==
    /\ tr' = register(tr, tabId, now)
    /\ selected' = <<>>
    /\ lastCall' = RegisterCall(tabId, tr, tr')
    /\ closed' = closed \ {tabId}
    /\ creditOrder' = creditedAfter(creditOrder, tr, tr')
    /\ UNCHANGED now

\* chrome.tabs.onRemoved listener
onRemoved(tabId) ==
    /\ tr' = deregister(tr, tabId)
    /\ selected' = <<>>
    /\ lastCall' = [op |-> "deregister", tabId |-> tabId,
                    invalidated |-> tr.jumpList # NoJumpList
                                    /\ tr'.jumpList = NoJumpList]
    /\ closed' = closed \cup {tabId}
    /\ creditOrder' = remove(creditOrder, tabId)
    /\ UNCHANGED now

\* chrome.tabs.onReplaced listener: deregister(removedTabId), register(addedTabId).
\* The record also tells whether the removed tab was pending, and due for a
\* credit, when the listener began (dwelt).
onReplaced(addedTabId, removedTabId) ==
    LET mid == deregister(tr, removedTabId)
    IN  /\ tr' = register(mid, addedTabId, now)
        /\ selected' = <<>>
        /\ lastCall' = [op |-> "replace", tabId |-> addedTabId,
                        removedTabId |-> removedTabId,
                        dwelt |-> removedTabId = tr.lastVisited
                                  /\ visitedLongEnough(tr, now),
                        pending |-> mid.lastVisited,
                        credited |-> credited(mid, tr'),
                        previous |-> previous(mid, tr')]
        /\ closed' = (closed \cup {removedTabId}) \ {addedTabId}
        /\ creditOrder' =
              creditedAfter(remove(creditOrder, removedTabId), mid, tr')
        /\ UNCHANGED now

\* The "jump back" command
JumpBack ==
    LET r == jumpBackTab(tr)
    IN  /\ tr' = r.this
        /\ selected' = selectSpecificTab(r.backTabId)
        /\ lastCall' = [op |-> "jumpBackTab", ret |-> r.backTabId]
        /\ UNCHANGED <<now, closed, creditOrder>>

\* The "jump forward" command
JumpForward ==
    LET r == jumpForwardTab(tr)
    IN  /\ tr' = r.this
        /\ selected' = selectSpecificTab(r.forwardTabId)
        /\ lastCall' = [op |-> "jumpForwardTab", ret |-> r.forwardTabId]
        /\ UNCHANGED <<now, closed, creditOrder>>

\* Time passes between two events.
Tick ==
    /\ now < MaxTicks * TickMs
    /\ now' = now + TickMs
    /\ UNCHANGED <<tr, selected, lastCall, closed, creditOrder>>

-----------------------------------------------------------------------------
(* Spec: the events arrive in any order *)

Activated == \E tabId \in TabIds : onActivated(tabId) /\ UNCHANGED <<step, script, inflight>>

FocusChanged == \E tabId \in TabIds : onFocusChanged(tabId) /\ UNCHANGED <<step, script, inflight>>

Removed == \E tabId \in TabIds : onRemoved(tabId) /\ UNCHANGED <<step, script, inflight>>

Replaced ==
    \E addedTabId \in TabIds, removedTabId \in TabIds :
        /\ addedTabId # removedTabId
        /\ onReplaced(addedTabId, removedTabId)
        /\ UNCHANGED <<step, script, inflight>>

Back == JumpBack /\ UNCHANGED <<step, script, inflight>>

Forward == JumpForward /\ UNCHANGED <<step, script, inflight>>

Clock == Tick /\ UNCHANGED <<step, script, inflight>>

Next == Activated \/ FocusChanged \/ Removed \/ Replaced \/ Back \/ Forward \/ Clock

Spec == Init /\ [][Next]_vars

-----------------------------------------------------------------------------
(* RecencySpec: the tab events alone, no jump command, over a longer time. *)

RecencyClock ==
    /\ now < MaxRecencyTicks * TickMs
    /\ now' = now + TickMs
    /\ UNCHANGED <<tr, selected, lastCall, closed, creditOrder, step, script,
                 inflight>>

RecencyNext == Activated \/ FocusChanged \/ Removed \/ Replaced \/ RecencyClock

RecencySpec == Init /\ [][RecencyNext]_vars

-----------------------------------------------------------------------------
(* RoundTripSpec: the round-trip scenario of three tabs T1, T2, T3.        *)
(* step counts the calls made so far:                                      *)
(*   register(T1), register(T2), register(T3), jumpBack(), register(T2),   *)
(*   jumpBack(), register(T1), jumpForward()                               *)
(* with each of T1, T2 active for at least TIME_DELTA ms before the next   *)
(* registration, and time free to pass anywhere.                           *)

T1 == script[1]

T2 == script[2]

T3 == script[3]

RoundTripInit ==
    /\ tr = TabRecency
    /\ now = 0
    /\ selected = <<>>
    /\ lastCall = [op |-> "constructor"]
    /\ closed = {}
    /\ creditOrder = <<>>
    /\ step = 0
    /\ script \in {s \in [1..3 -> TabIds] : Cardinality({s[1], s[2], s[3]}) = 3}
    /\ inflight = <<>>

\* now - lastVisitedTime >= TIME_DELTA for the tab being left.
Dwelt == tr.lastVisitedTime # null /\ now - tr.lastVisitedTime >= TIME_DELTA

ScriptRegister ==
    /\ \/ step = 0 /\ onActivated(T1)
       \/ step = 1 /\ Dwelt /\ onActivated(T2)
       \/ step = 2 /\ Dwelt /\ onActivated(T3)
       \/ step = 4 /\ onActivated(T2)
       \/ step = 6 /\ onActivated(T1)
    /\ step' = step + 1
    /\ UNCHANGED <<script, inflight>>

ScriptBack ==
    /\ step \in {3, 5}
    /\ JumpBack
    /\ step' = step + 1
    /\ UNCHANGED <<script, inflight>>

ScriptForward ==
    /\ step = 7
    /\ JumpForward
    /\ step' = step + 1
    /\ UNCHANGED <<script, inflight>>

RoundTripNext == ScriptRegister \/ ScriptBack \/ ScriptForward \/ Clock

RoundTripSpec == RoundTripInit /\ [][RoundTripNext]_vars

-----------------------------------------------------------------------------
(* Jumps whose activation has not arrived yet *)

\* selectSpecificTab only asks the browser to activate the tab; the
\* onActivated event that request causes reaches register later, and another
\* command can run in between. Here `step` counts the jump commands issued,
\* and `inflight` holds the requested tabs whose event is still to come, in
\* the order of the requests. chrome.tabs.get finds no tab -1, so a jump that
\* found no target activates nothing.

\* The tabs the user activates before the first jump command.
AsyncActivated ==
    /\ step = 0
    /\ \E tabId \in TabIds : onActivated(tabId)
    /\ UNCHANGED <<step, script, inflight>>

requested(queue, tabId) ==
    IF tabId = -1 THEN queue ELSE Append(queue, tabId)

AsyncBack ==
    /\ step < MaxJumps
    /\ JumpBack
    /\ step' = step + 1
    /\ inflight' = requested(inflight, lastCall'.ret)
    /\ UNCHANGED script

AsyncForward ==
    /\ step < MaxJumps
    /\ JumpForward
    /\ step' = step + 1
    /\ inflight' = requested(inflight, lastCall'.ret)
    /\ UNCHANGED script

\* The onActivated event of the oldest request arrives.
Delivered ==
    /\ inflight # <<>>
    /\ onActivated(Head(inflight))
    /\ inflight' = Tail(inflight)
    /\ UNCHANGED <<step, script>>

AsyncNext == AsyncActivated \/ AsyncBack \/ AsyncForward \/ Delivered \/ Clock

AsyncSpec == Init /\ [][AsyncNext]_vars

-----------------------------------------------------------------------------

(* Vocabulary of the properties *)

\* A step in which a handler ran (time stands still while one runs) and the
\* call it made on tr, as recorded in lastCall'.
Called(op) == now' = now /\ lastCall'.op = op

\* The object at the entry of the register call of a step: in onReplaced the
\* call follows deregister(removedTabId).
RegisterCalled == Called("register") \/ Called("replace")

JumpCalled == Called("jumpBackTab") \/ Called("jumpForwardTab")

HasJumpList == tr.jumpList # NoJumpList

\* The tab at tabs[activeIdx] of the live jump list is t.
AnchorIs(t) ==
    /\ 0 <= tr.jumpList.activeIdx
    /\ tr.jumpList.activeIdx < Len(tr.jumpList.tabs)
    /\ tr.jumpList.tabs[tr.jumpList.activeIdx + 1] = t

Elements(seq) == {seq[i] : i \in 1..Len(seq)}

-----------------------------------------------------------------------------
(* C1 *)

\* C1 (as stated): immediately after a register or deregister call returns,
\* if a jump list exists then tabs[activeIdx] equals current.
CoherentAfterRegisterOrDeregister ==
    lastCall.op \in {"register", "replace", "deregister"} /\ HasJumpList
        => AnchorIs(tr.current)

\* C1 (amended): immediately after a register call returns, if a jump list
\* exists then tabs[activeIdx] equals current.
CoherentAfterRegister ==
    lastCall.op \in {"register", "replace"} /\ HasJumpList
        => AnchorIs(tr.current)

\* A register call has returned and left alive a jump list that a jump had
\* moved off its newest element.
CoherentAfterRegisterWitness ==
    /\ lastCall.op = "register"
    /\ HasJumpList
    /\ tr.jumpList.activeIdx < Len(tr.jumpList.tabs) - 1
    /\ AnchorIs(tr.current)

-----------------------------------------------------------------------------
(* C2 *)

\* C2: when jumpBackTab or jumpForwardTab finds no target (the jump list
\* returned -1, or there was no jump list to ask), selectSpecificTab is not
\* called.
NoTargetNoActivation ==
    lastCall.op \in {"jumpBackTab", "jumpForwardTab"} /\ lastCall.ret = -1
        => selected = <<>>

-----------------------------------------------------------------------------
(* C3 *)

\* C3 (as stated): after register(T1), register(T2), register(T3), each at
\* least TIME_DELTA ms after the one before, getTabsByRecency is [T3, T2, T1].
RankingAfterThreeRegistrations ==
    step = 3 => getTabsByRecency(tr) = <<T3, T2, T1>>

\* C3 (amended): after those three registrations getTabsByRecency is
\* [T2, T1]; T3, the current tab, is pending and holds no timestamp yet.
RankingOmitsPendingTab ==
    step = 3 =>
        /\ getTabsByRecency(tr) = <<T2, T1>>
        /\ T3 \notin DOMAIN tr.cache
        /\ tr.lastVisited = T3

RankingOmitsPendingTabWitness ==
    /\ step = 3
    /\ tr.current = T3
    /\ lastCall.op = "register"
    /\ lastCall.credited = T2

-----------------------------------------------------------------------------
(* C4 *)

\* C4: in the round trip, the first jumpBack selects T2 and the jump list
\* [T1, T2, T3] survives register(T2); the second jumpBack selects T1; after
\* register(T1), jumpForward selects T2 with activeIdx back up by one in the
\* same snapshot.
RoundTrip ==
    /\ step = 4 => /\ selected = <<T2>>
                   /\ tr.jumpList = [tabs |-> <<T1, T2, T3>>, activeIdx |-> 1,
                                     deletedTabs |-> {}]
    /\ step = 5 => /\ tr.current = T2
                   /\ tr.jumpList = [tabs |-> <<T1, T2, T3>>, activeIdx |-> 1,
                                     deletedTabs |-> {}]
    /\ step = 6 => /\ selected = <<T1>>
                   /\ tr.jumpList = [tabs |-> <<T1, T2, T3>>, activeIdx |-> 0,
                                     deletedTabs |-> {}]
    /\ step = 7 => /\ tr.current = T1
                   /\ tr.jumpList = [tabs |-> <<T1, T2, T3>>, activeIdx |-> 0,
                                     deletedTabs |-> {}]
    /\ step = 8 => /\ selected = <<T2>>
                   /\ tr.jumpList = [tabs |-> <<T1, T2, T3>>, activeIdx |-> 1,
                                     deletedTabs |-> {}]

RoundTripWitness ==
    /\ step = 8
    /\ lastCall = [op |-> "jumpForwardTab", ret |-> T2]
    /\ tr.current = T1

-----------------------------------------------------------------------------
(* C5 *)

\* C5: a register call that arrives less than TIME_DELTA ms after the
\* previous one credits nothing: cache and timestamp are as at its entry
\* and nothing is handed to selectSpecificTab.
DebounceDrop ==
    [][\A op \in {"register", "replace"} :
          LET entry == IF op = "replace"
                       THEN deregister(tr, lastCall'.removedTabId) ELSE tr
          IN  /\ Called(op)
              /\ entry.lastVisitedTime # null
              /\ now - entry.lastVisitedTime < TIME_DELTA
              => /\ tr'.cache = entry.cache
                 /\ tr'.timestamp = entry.timestamp
                 /\ selected' = <<>>]_vars

\* register(B) has just dropped the visit of another tab A, which holds no
\* timestamp.
DebounceDropWitness ==
    /\ lastCall.op = "register"
    /\ lastCall.pending # null
    /\ lastCall.pending # lastCall.tabId
    /\ lastCall.credited = null
    /\ lastCall.pending \notin DOMAIN tr.cache

-----------------------------------------------------------------------------
(* C6 *)

\* C6: a register call that arrives at least TIME_DELTA ms after the
\* previous one, whose tab A has not been deregistered since, sets cache[A]
\* to the incremented timestamp, above A's previous value and above every
\* other value in cache.
DebounceCredit ==
    [][\A op \in {"register", "replace"} :
          LET entry == IF op = "replace"
                       THEN deregister(tr, lastCall'.removedTabId) ELSE tr
              A == entry.lastVisited
          IN  /\ Called(op)
              /\ entry.lastVisitedTime # null
              /\ now - entry.lastVisitedTime >= TIME_DELTA
              => /\ A \in DOMAIN tr'.cache
                 /\ tr'.timestamp = entry.timestamp + 1
                 /\ tr'.cache[A] = tr'.timestamp
                 /\ A \in DOMAIN entry.cache => tr'.cache[A] > entry.cache[A]
                 /\ \A t \in DOMAIN tr'.cache \ {A} :
                        /\ tr'.cache[A] > tr'.cache[t]
                        /\ tr'.cache[t] = entry.cache[t]]_vars

\* A register call has just credited, for the second time, a tab that is
\* not the tab being registered, while another tab holds a timestamp too.
DebounceCreditWitness ==
    /\ lastCall.op = "register"
    /\ lastCall.credited # null
    /\ lastCall.credited # lastCall.tabId
    /\ lastCall.previous # null
    /\ tr.cache[lastCall.credited] = tr.timestamp
    /\ Cardinality(DOMAIN tr.cache) = 2

-----------------------------------------------------------------------------
(* C7 *)

\* The 1-based position of tab t in the sequence r (0 if absent).
Position(r, t) ==
    IF t \in Elements(r) THEN CHOOSE i \in 1..Len(r) : r[i] = t ELSE 0

\* C7: getTabsByRecency holds exactly the tabs that have a cache entry, each
\* once, and a tab credited later than another comes before it.
RankingMonotonic ==
    LET ranking == getTabsByRecency(tr)
    IN  /\ Elements(ranking) = DOMAIN tr.cache
        /\ Len(ranking) = Cardinality(DOMAIN tr.cache)
        /\ Elements(creditOrder) = DOMAIN tr.cache
        /\ \A i, j \in 1..Len(creditOrder) :
               i < j => Position(ranking, creditOrder[j])
                            < Position(ranking, creditOrder[i])

\* Three tabs are ranked, in an order that is neither ascending nor
\* descending in their ids.
RankingMonotonicWitness ==
    /\ Len(creditOrder) = 3
    /\ creditOrder[2] < creditOrder[1]
    /\ creditOrder[2] < creditOrder[3]
    /\ getTabsByRecency(tr) = <<creditOrder[3], creditOrder[2], creditOrder[1]>>

-----------------------------------------------------------------------------
(* C8 *)

\* C8: deregister(t) of a tab that is not at activeIdx keeps the jump list,
\* tabs and activeIdx unchanged and t tombstoned; while the jump list lives
\* its tabs stay and its tombstones are never lifted; and no
\* getJumpBackTabId / getJumpForwardTabId call returns a tombstoned tab.
TombstoneSkip ==
    [][/\ Called("deregister") /\ HasJumpList /\ ~AnchorIs(lastCall'.tabId)
          => tr'.jumpList =
                [tr.jumpList EXCEPT !.deletedTabs = @ \cup {lastCall'.tabId}]
       /\ Called("replace") /\ HasJumpList /\ tr'.jumpList # NoJumpList
          => lastCall'.removedTabId \in tr'.jumpList.deletedTabs
       /\ HasJumpList /\ tr'.jumpList # NoJumpList
          => /\ tr'.jumpList.tabs = tr.jumpList.tabs
             /\ tr.jumpList.deletedTabs \subseteq tr'.jumpList.deletedTabs
       /\ JumpCalled /\ HasJumpList
          => /\ lastCall'.ret \notin tr.jumpList.deletedTabs
             /\ lastCall'.ret \notin tr'.jumpList.deletedTabs]_vars

\* jumpBackTab has just stepped over a tombstoned tab to an older one.
TombstoneSkipWitness ==
    /\ lastCall.op = "jumpBackTab"
    /\ lastCall.ret # -1
    /\ HasJumpList
    /\ tr.jumpList.activeIdx + 2 < Len(tr.jumpList.tabs)
    /\ tr.jumpList.tabs[tr.jumpList.activeIdx + 2] \in tr.jumpList.deletedTabs

-----------------------------------------------------------------------------
(* C9 *)

\* C9: deregister(t) of the tab at activeIdx discards the jump list, and the
\* jump list the next jumpBack builds holds no tab that has been
\* deregistered (and not registered since).
AnchorInvalidation ==
    [][/\ Called("deregister") /\ HasJumpList /\ AnchorIs(lastCall'.tabId)
          => tr'.jumpList = NoJumpList
       /\ Called("jumpBackTab") /\ lastCall.op = "deregister"
             /\ lastCall.invalidated
          => /\ tr'.jumpList # NoJumpList
             /\ Elements(tr'.jumpList.tabs) \cap closed = {}]_vars

-----------------------------------------------------------------------------
(* C10 *)

Snapshot ==
    IF creditOrder # <<>> /\ creditOrder[Len(creditOrder)] # tr.current
    THEN Append(creditOrder, tr.current) ELSE creditOrder

-----------------------------------------------------------------------------
(* C11 *)

\* C11: a jump on an existing jump list that finds no target returns -1 and
\* leaves tabs, activeIdx and deletedTabs as they were; and a jump that
\* directly follows a jump in the same direction that returned -1 returns -1
\* again and leaves the whole object unchanged, so that any number of
\* repeated calls keeps answering -1. Both directions.
JumpBoundaryIdempotent ==
    [][\A op \in {"jumpBackTab", "jumpForwardTab"} :
          /\ Called(op) /\ HasJumpList /\ lastCall'.ret = -1
             => tr'.jumpList = tr.jumpList
          /\ Called(op) /\ lastCall.op = op /\ lastCall.ret = -1
             => lastCall'.ret = -1 /\ tr' = tr]_vars

\* jumpBack has answered -1 on a jump list whose older entries are all
\* tombstoned: the anchor is not at index 0, yet there is nothing to go to.
JumpBoundaryIdempotentWitness ==
    /\ lastCall.op = "jumpBackTab"
    /\ lastCall.ret = -1
    /\ HasJumpList
    /\ tr.jumpList.activeIdx >= 1
    /\ getJumpBackTabId(tr.jumpList) = [jumpList |-> tr.jumpList, ret |-> -1]

-----------------------------------------------------------------------------
(* C12 *)

\* The tab is in none of the structures: not ranked, not pending, and not in
\* the tabs of the jump list (if there is one).
Unknown(t) ==
    /\ t \notin DOMAIN tr.cache
    /\ t # tr.lastVisited
    /\ HasJumpList => t \notin Elements(tr.jumpList.tabs)

\* C12 (as stated): deregister(t) of an unknown tab leaves the whole object
\* unchanged, the tombstone set of the jump list included.
DeregisterUnknownNoOp ==
    [][Called("deregister") /\ Unknown(lastCall'.tabId) => tr' = tr]_vars

\* C12 (amended): deregister(t) of an unknown tab leaves timestamp, cache,
\* current, lastVisited and lastVisitedTime unchanged; without a jump list
\* nothing changes at all; with a jump list, tabs and activeIdx are unchanged
\* and t joins deletedTabs, which changes the answer of neither scan.
DeregisterUnknownTombstone ==
    [][Called("deregister") /\ Unknown(lastCall'.tabId)
         => /\ tr' = [tr EXCEPT !.jumpList =
                         IF HasJumpList
                         THEN [@ EXCEPT !.deletedTabs = @ \cup {lastCall'.tabId}]
                         ELSE @]
            /\ HasJumpList
                 => /\ getJumpBackTabId(tr'.jumpList).ret
                         = getJumpBackTabId(tr.jumpList).ret
                    /\ getJumpForwardTabId(tr'.jumpList).ret
                         = getJumpForwardTabId(tr.jumpList).ret]_vars

\* deregister has returned for a tab that is in no structure, while a
\* non-empty jump list exists and a tab is pending: the tab is tombstoned.
DeregisterUnknownTombstoneWitness ==
    /\ lastCall.op = "deregister"
    /\ HasJumpList
    /\ tr.jumpList.tabs # <<>>
    /\ tr.lastVisited # null
    /\ lastCall.tabId \notin Elements(tr.jumpList.tabs)
    /\ lastCall.tabId \in tr.jumpList.deletedTabs
    /\ Cardinality(tr.jumpList.deletedTabs) = 1

-----------------------------------------------------------------------------
(* C13 *)

\* C13 (as stated): once jump commands are being issued, every register(x)
\* caused by a jump, arriving in the order of the requests and possibly after
\* a further jump was issued, finds the jump list anchored at x and leaves it
\* in place.
AsyncCoherent ==
    step > 0 /\ lastCall.op = "register"
        => HasJumpList /\ AnchorIs(lastCall.tabId)

-----------------------------------------------------------------------------
(* C14 *)

\* C14 (as stated): in every state in which a tab is current and jumpBack
\* would create the jump list, the list it constructs (lines 59-63, before
\* the scan moves the index) is non-empty, ends with current, and has
\* activeIdx on that last element.
SnapshotAnchoredAtCurrent ==
    ~HasJumpList /\ tr.current \in TabIds
        => LET jl == TabJumpList(jumpListTabs(tr))
           IN  /\ jl.tabs # <<>>
               /\ jl.tabs[Len(jl.tabs)] = tr.current
               /\ jl.activeIdx = Len(jl.tabs) - 1

-----------------------------------------------------------------------------
(* C15 *)

\* The step wrote cache[t]: the entry is new or holds another timestamp.
Written(t) ==
    /\ t \in DOMAIN tr'.cache
    /\ t \notin DOMAIN tr.cache \/ tr'.cache[t] # tr.cache[t]

\* The step is a register(u) call entered with t pending for at least
\* TIME_DELTA ms since the latest register(t).
RegisterCalledAfterDwell(t) ==
    \E op \in {"register", "replace"} :
        LET entry == IF op = "replace"
                     THEN deregister(tr, lastCall'.removedTabId) ELSE tr
        IN  /\ Called(op)
            /\ entry.lastVisited = t
            /\ entry.current = t
            /\ entry.lastVisitedTime # null
            /\ now - entry.lastVisitedTime >= TIME_DELTA

\* C15 (as stated): every write of cache[t] happens in a register(u) call
\* with u # t, entered with t pending for at least TIME_DELTA ms.
InvariantA ==
    [][\A t \in TabIds :
          Written(t) => RegisterCalledAfterDwell(t) /\ lastCall'.tabId # t]_vars

\* C15 (amended): every write of cache[t] happens in a register(u) call
\* entered with t current and pending for at least TIME_DELTA ms since the
\* latest register(t); u may be t itself.
InvariantAAnyArrival ==
    [][\A t \in TabIds : Written(t) => RegisterCalledAfterDwell(t)]_vars

\* register(t) has credited t itself: a repeated notification for the tab
\* that was pending, TIME_DELTA ms or more after the previous one.
InvariantAAnyArrivalWitness ==
    /\ lastCall.op = "register"
    /\ lastCall.credited = lastCall.tabId
    /\ lastCall.pending = lastCall.tabId
    /\ tr.cache[lastCall.tabId] = tr.timestamp
    /\ tr.current = lastCall.tabId

-----------------------------------------------------------------------------
(* C16 *)

\* The clock is at least 1, every stored timestamp is at most the clock, and
\* no two tabs share one.
TimestampsDistinct ==
    /\ tr.timestamp >= 1
    /\ \A t \in DOMAIN tr.cache : tr.cache[t] <= tr.timestamp
    /\ \A t, u \in DOMAIN tr.cache : tr.cache[t] = tr.cache[u] => t = u

\* C16: the clock is 1 after construction and no step of any handler lowers
\* it; in every state each timestamp in cache is at most the clock and no two
\* tabs hold the same timestamp.
ClockAndTimestamps ==
    /\ tr.timestamp = 1
    /\ []TimestampsDistinct
    /\ [][tr'.timestamp >= tr.timestamp]_vars

\* Two tabs are ranked with different timestamps, the clock has advanced
\* twice, and a deregister call has just left it where it was.
ClockAndTimestampsWitness ==
    /\ lastCall.op = "deregister"
    /\ tr.timestamp = 3
    /\ Cardinality(DOMAIN tr.cache) = 2
    /\ Cardinality({tr.cache[t] : t \in DOMAIN tr.cache}) = 2

-----------------------------------------------------------------------------
(* C17 *)

\* C17: a tab that was deregistered and not registered again since (closed)
\* is not in cache, not in the ranking, and not the pending tab, in every
\* state that any later sequence of handlers and any passage of time leads
\* to; so no later register call can credit it.
ClosedTabNotRecent ==
    \A t \in closed :
        /\ t \notin DOMAIN tr.cache
        /\ t \notin Elements(getTabsByRecency(tr))
        /\ t # tr.lastVisited

\* onReplaced has deregistered the tab that was pending after it had dwelt
\* TIME_DELTA ms or more, and its register call for the other tab found no
\* pending tab and credited nothing: the clock has not moved.
ClosedTabNotRecentWitness ==
    /\ lastCall.op = "replace"
    /\ lastCall.dwelt
    /\ lastCall.tabId # lastCall.removedTabId
    /\ lastCall.pending = null
    /\ lastCall.credited = null
    /\ lastCall.removedTabId \in closed
    /\ tr.timestamp = 1

-----------------------------------------------------------------------------
(* C18 *)

\* C18: jumpBack and jumpForward leave timestamp, cache, current, lastVisited
\* and lastVisitedTime as they were; of the object only jumpList may differ
\* when they return.
JumpsChangeOnlyJumpList ==
    [][JumpCalled => tr' = [tr EXCEPT !.jumpList = tr'.jumpList]]_vars

\* jumpBack has moved the anchor to another tab and asked for its activation,
\* while current and the pending tab are still the tab jumped from.
JumpsChangeOnlyJumpListWitness ==
    /\ lastCall.op = "jumpBackTab"
    /\ lastCall.ret \in TabIds
    /\ AnchorIs(lastCall.ret)
    /\ selected = <<lastCall.ret>>
    /\ tr.current # lastCall.ret
    /\ tr.lastVisited = tr.current
    /\ tr.cache # <<>>

-----------------------------------------------------------------------------
(* C19 *)

\* C19 (as stated): the tab a jump hands to selectSpecificTab is never a tab
\* that was deregistered and not registered again since.
NoJumpToClosedTab ==
    lastCall.op \in {"jumpBackTab", "jumpForwardTab"}
        => lastCall.ret \notin closed

-----------------------------------------------------------------------------
(* C20 *)

\* C20 (as stated): whenever a jump list exists, its tabs hold each tab id at
\* most once, 0 <= activeIdx < tabs.length, and the tab at activeIdx is not
\* in deletedTabs.
WellFormedJumpList ==
    HasJumpList
        => /\ Cardinality(Elements(tr.jumpList.tabs)) = Len(tr.jumpList.tabs)
           /\ 0 <= tr.jumpList.activeIdx
           /\ tr.jumpList.activeIdx < Len(tr.jumpList.tabs)
           /\ tr.jumpList.tabs[tr.jumpList.activeIdx + 1]
                 \notin tr.jumpList.deletedTabs

====
